---- MODULE Spec2Model ----
(***************************************************************************)
(* A model of github.com/twmb/go-mmheap: a min-max heap laid over a        *)
(* caller-owned sequence (heap.Interface).  The sequence is the intHeap of *)
(* mmheap_test.go: a slice of ints compared with <.  Indices are 0-based   *)
(* as in the source; At(s, i) reads the i-th element of the slice.         *)
(***************************************************************************)
EXTENDS Integers, Sequences, FiniteSets, TLC

VARIABLES h, inited, last, eff, out, orig, track, run

vars == <<h, inited, last, eff, out, orig, track, run>>

(***************************************************************************)
(* Bounds of the model.                                                    *)
(***************************************************************************)
MaxLen == 5        \* longest sequence of Spec
PushLen == 7       \* longest sequence of SpecPushPop
MaxVal == 2        \* values are 0..MaxVal
SortLen == 7       \* longest sequence of SpecSort and SpecRemoveMax
DeepLen == 12      \* longest sequence of SpecDeep
DeepVal == 1       \* values of SpecDeep are 0..DeepVal
MisuseLen == 4     \* longest sequence of SpecMisuse
DownLen == 5       \* longest sequence of SpecDown
DownVal == 1       \* values of SpecDown are 0..DownVal
SiftLen == 16      \* longest sequence of SpecSift
LevelMax == 126    \* SpecLevel asks about every index 0..LevelMax
LevelBits == 29    \* and about both ends of every level up to this one

(***************************************************************************)
(* The caller's sequence: intHeap.                                         *)
(***************************************************************************)
At(s, i) == s[i + 1]

\* (*h)[i] and (*h)[j] exist; intHeap.Less and intHeap.Swap panic otherwise.
Indexable(s, i, j) == 0 <= i /\ i < Len(s) /\ 0 <= j /\ j < Len(s)

Less(s, i, j) == At(s, i) < At(s, j)

\* Mutant of Swap: the element at j is copied to i and not exchanged.
SwapCopy(s, i, j) == [s EXCEPT ![i + 1] = At(s, j)]

Swap(s, i, j) == [s EXCEPT ![i + 1] = At(s, j), ![j + 1] = At(s, i)]

\* intHeap.Push: append.
SeqPush(s, v) == Append(s, v)

\* intHeap.Pop: the slice without its last element, and that element.
SeqPop(s) == [h |-> SubSeq(s, 1, Len(s) - 1), v |-> s[Len(s)]]

(***************************************************************************)
(* What a call did besides its result: the number of h.Swap calls, the     *)
(* indices it handed to h.Less or h.Swap, the values its sift index took,  *)
(* and whether it ended in a panic.                                        *)
(***************************************************************************)
Effects(swaps, touched, path) ==
    [swaps |-> swaps, touched |-> touched, path |-> path]

Touch(acc, idx) == [acc EXCEPT !.touched = @ \cup idx]

\* One h.Swap that moved the sift index to on.
Hop(acc, on) == [acc EXCEPT !.swaps = @ + 1, !.path = Append(@, on)]

Outcome(s, on, acc, panic) ==
    [h |-> s, on |-> on, swaps |-> acc.swaps, touched |-> acc.touched,
     path |-> acc.path, panic |-> panic]

\* The effects of a call a followed, unless a panicked, by a call b.
Both(a, b) ==
    Effects(a.swaps + b.swaps, a.touched \cup b.touched, a.path \o b.path)

(***************************************************************************)
(* Level parity and index arithmetic.                                      *)
(***************************************************************************)
UintSize == 64

RECURSIVE BitLen(_)
BitLen(x) == IF x = 0 THEN 0 ELSE 1 + BitLen(x \div 2)

\* bits.LeadingZeros(uint(x)): a negative x converts to a word whose top bit
\* is set.
LeadingZeros(x) == IF x < 0 THEN 0 ELSE UintSize - BitLen(x)

\* Mutant of isMinLevel: the parity test is inverted.
isMinLevelEvenZeros(index) == (LeadingZeros(index + 1) % 2) = 0

isMinLevel(index) == (LeadingZeros(index + 1) % 2) = 1

hasParent(index) == index > 0

\* Go's integer division truncates toward zero: parent(0) = (-1)/2 = 0.
parent(index) ==
    IF index - 1 >= 0 THEN (index - 1) \div 2 ELSE -((1 - index) \div 2)

hasGrandparent(index) == index > 2

grandparent(index) == parent(parent(index))

(***************************************************************************)
(* down: sift the element at i0 toward the leaves of the first n elements. *)
(***************************************************************************)
self == 0
child == 1
grandchild == 2

\* Mutant of Progeny: the left child is taken to be 2*on, one too low.
ProgenyOffByOne(on) ==
    LET l == 2 * on
        r == l + 1
        ll == 2 * l + 1
        lr == ll + 1
        rl == 2 * r + 1
        rr == rl + 1
    IN  << [index |-> l, relation |-> child],
           [index |-> r, relation |-> child],
           [index |-> ll, relation |-> grandchild],
           [index |-> lr, relation |-> grandchild],
           [index |-> rl, relation |-> grandchild],
           [index |-> rr, relation |-> grandchild] >>

\* The six candidates of one iteration, in the order the code visits them.
Progeny(on) ==
    LET l == 2 * on + 1
        r == l + 1
        ll == 2 * l + 1
        lr == ll + 1
        rl == 2 * r + 1
        rr == rl + 1
    IN  << [index |-> l, relation |-> child],
           [index |-> r, relation |-> child],
           [index |-> ll, relation |-> grandchild],
           [index |-> lr, relation |-> grandchild],
           [index |-> rl, relation |-> grandchild],
           [index |-> rr, relation |-> grandchild] >>

\* The inner for-range loop: stops at the first candidate outside [0, n).
\* touched collects the indices compared so far.
RECURSIVE Scan(_, _, _, _, _, _, _)
Scan(s, n, onMinLevel, cands, k, smallest, touched) ==
    IF k > Len(cands)
    THEN [smallest |-> smallest, touched |-> touched, panic |-> FALSE]
    ELSE LET progeny == cands[k]
             compared == touched \cup {progeny.index, smallest.index}
         IN  IF progeny.index >= n \/ progeny.index < 0
             THEN [smallest |-> smallest, touched |-> touched,
                   panic |-> FALSE]
             ELSE IF ~Indexable(s, progeny.index, smallest.index)
             THEN [smallest |-> smallest, touched |-> compared,
                   panic |-> TRUE]
             ELSE Scan(s, n, onMinLevel, cands, k + 1,
                       IF onMinLevel = Less(s, progeny.index, smallest.index)
                       THEN progeny ELSE smallest,
                       compared)

\* Mutant of DownLoop: after a grandchild swap the skipped-over parent is not
\* compared (the repair of lines 204-207 is left out).
RECURSIVE DownLoopNoParentRepair(_, _, _, _, _)
DownLoopNoParentRepair(s, on, onMinLevel, n, acc) ==
    LET sc == Scan(s, n, onMinLevel, Progeny(on), 1,
                   [index |-> on, relation |-> self], acc.touched)
        smallest == sc.smallest
        seen == Touch(acc, sc.touched)
    IN  IF sc.panic THEN Outcome(s, on, seen, TRUE)
        ELSE IF smallest.relation = self THEN Outcome(s, on, seen, FALSE)
        ELSE LET s1 == Swap(s, on, smallest.index)
                 acc1 == Hop(seen, smallest.index)
             IN  IF smallest.relation = child
                 THEN Outcome(s1, smallest.index, acc1, FALSE)
                 ELSE DownLoopNoParentRepair(s1, smallest.index, onMinLevel,
                                             n, acc1)

\* The outer for loop of down; acc collects the effects so far.
RECURSIVE DownLoop(_, _, _, _, _)
DownLoop(s, on, onMinLevel, n, acc) ==
    LET sc == Scan(s, n, onMinLevel, Progeny(on), 1,
                   [index |-> on, relation |-> self], acc.touched)
        smallest == sc.smallest
        seen == Touch(acc, sc.touched)
    IN  IF sc.panic THEN Outcome(s, on, seen, TRUE)
        ELSE IF smallest.relation = self THEN Outcome(s, on, seen, FALSE)
        ELSE LET s1 == Swap(s, on, smallest.index)
                 acc1 == Hop(seen, smallest.index)
             IN  IF smallest.relation = child
                 THEN Outcome(s1, smallest.index, acc1, FALSE)
                 ELSE LET p == parent(smallest.index)
                          acc2 == Touch(acc1, {p, smallest.index})
                      IN  IF ~Indexable(s1, p, smallest.index)
                          THEN Outcome(s1, smallest.index, acc2, TRUE)
                          ELSE IF onMinLevel = Less(s1, p, smallest.index)
                          THEN DownLoop(Swap(s1, smallest.index, p),
                                        smallest.index, onMinLevel, n,
                                        [acc2 EXCEPT !.swaps = @ + 1])
                          ELSE DownLoop(s1, smallest.index, onMinLevel, n,
                                        acc2)

\* return on > i0, with what the loop r left behind.
DownReturn(r, i0) ==
    [h |-> r.h, moved |-> r.on > i0, swaps |-> r.swaps,
     touched |-> r.touched, path |-> r.path, panic |-> r.panic]

down(s, i0, n) ==
    DownReturn(DownLoop(s, i0, isMinLevel(i0), n, Effects(0, {}, <<i0>>)), i0)

(***************************************************************************)
(* up: sift the element at on toward the root.                             *)
(***************************************************************************)
\* The grandparent loop of up.
RECURSIVE UpLoop(_, _, _, _)
UpLoop(s, on, onMinLevel, acc) ==
    IF hasGrandparent(on)
    THEN LET g == grandparent(on)
             acc1 == Touch(acc, {on, g})
         IN  IF ~Indexable(s, on, g) THEN Outcome(s, on, acc1, TRUE)
             ELSE IF onMinLevel = Less(s, on, g)
             THEN UpLoop(Swap(s, on, g), g, onMinLevel, Hop(acc1, g))
             ELSE Outcome(s, on, acc1, FALSE)
    ELSE Outcome(s, on, acc, FALSE)

\* Mutant of up: the parent step only, no grandparent hops.
upNoGrandparent(s, on) ==
    LET onMinLevel == isMinLevel(on)
        p == parent(on)
        acc == Effects(0, {}, <<on>>)
        acc1 == Touch(acc, {p, on})
    IN  IF ~hasParent(on) THEN Outcome(s, on, acc, FALSE)
        ELSE IF ~Indexable(s, p, on) THEN Outcome(s, on, acc1, TRUE)
        ELSE IF onMinLevel = Less(s, p, on)
        THEN Outcome(Swap(s, on, p), p, Hop(acc1, p), FALSE)
        ELSE Outcome(s, on, acc1, FALSE)

up(s, on) ==
    LET onMinLevel == isMinLevel(on)
        p == parent(on)
        acc == Effects(0, {}, <<on>>)
        acc1 == Touch(acc, {p, on})
    IN  IF ~hasParent(on) THEN UpLoop(s, on, onMinLevel, acc)
        ELSE IF ~Indexable(s, p, on) THEN Outcome(s, on, acc1, TRUE)
        ELSE IF onMinLevel = Less(s, p, on)
        THEN UpLoop(Swap(s, on, p), p, ~onMinLevel, Hop(acc1, p))
        ELSE UpLoop(s, on, onMinLevel, acc1)

(***************************************************************************)
(* The package-level functions, as functions of the sequence.  Each gives  *)
(* the sequence it leaves (h), the value it returns (v, where it returns   *)
(* one), its effects, and whether it panicked.                             *)
(***************************************************************************)
NoRet == "none"

Result(s, v, fx, panic) ==
    [h |-> s, v |-> v, swaps |-> fx.swaps, touched |-> fx.touched,
     path |-> fx.path, panic |-> panic]

\* h.Pop() at the end of Pop and Remove: panics on an empty slice.
PopLast(s, fx) ==
    IF Len(s) = 0 THEN Result(s, NoRet, fx, TRUE)
    ELSE Result(SeqPop(s).h, SeqPop(s).v, fx, FALSE)

\* The loop of Init: down(h, i, n) for i = n/2 - 1 down to 0.  InitNext goes
\* on from the call d of down at index i.
RECURSIVE InitLoop(_, _, _, _)
RECURSIVE InitNext(_, _, _, _)
InitNext(d, i, n, fx) ==
    IF d.panic THEN Result(d.h, NoRet, Both(fx, d), TRUE)
    ELSE InitLoop(d.h, i - 1, n, Both(fx, d))

InitLoop(s, i, n, fx) ==
    IF i >= 0 THEN InitNext(down(s, i, n), i, n, fx)
    ELSE Result(s, NoRet, fx, FALSE)

\* Mutant of InitFn: the loop starts one index too low.
InitFnLateStart(s) ==
    InitLoop(s, (Len(s) \div 2) - 2, Len(s), Effects(0, {}, <<>>))

InitFn(s) == InitLoop(s, (Len(s) \div 2) - 1, Len(s), Effects(0, {}, <<>>))

\* The call u of up is all that Push does after h.Push(x).
PushReturn(u) == Result(u.h, NoRet, u, u.panic)

PushFn(s, x) == PushReturn(up(SeqPush(s, x), Len(s)))

\* Mutant of PopFn: the new root is not sifted down.
PopFnNoSift(s) ==
    LET n == Len(s) - 1
    IN  IF ~Indexable(s, 0, n)
        THEN Result(s, NoRet, Effects(0, {0, n}, <<>>), TRUE)
        ELSE PopLast(Swap(s, 0, n), Effects(1, {0, n}, <<>>))

\* return h.Pop(), reached after the h.Swap and the sift r unless r panicked.
PopAfter(fx, r) ==
    IF r.panic THEN Result(r.h, NoRet, Both(fx, r), TRUE)
    ELSE PopLast(r.h, Both(fx, r))

PopFn(s) ==
    LET n == Len(s) - 1
    IN  IF ~Indexable(s, 0, n)
        THEN Result(s, NoRet, Effects(0, {0, n}, <<>>), TRUE)
        ELSE PopAfter(Effects(1, {0, n}, <<>>), down(Swap(s, 0, n), 0, n))

\* The call u of up that follows a call d of down.
UpAfter(d, u) == Result(u.h, NoRet, Both(d, u), u.panic)

\* if !d { up(h, i) }, d being the call of down.
UpUnlessMoved(d, i) ==
    IF d.panic \/ d.moved THEN Result(d.h, NoRet, d, d.panic)
    ELSE UpAfter(d, up(d.h, i))

\* if !down(h, i, n) { up(h, i) }
DownElseUp(s, i, n) == UpUnlessMoved(down(s, i, n), i)

\* Mutant of RemoveFn: the element at i is not swapped to the end.
RemoveFnNoSwap(s, i) == PopLast(s, Effects(0, {}, <<>>))

RemoveFn(s, i) ==
    LET n == Len(s) - 1
    IN  IF n # i
        THEN IF ~Indexable(s, i, n)
             THEN Result(s, NoRet, Effects(0, {i, n}, <<>>), TRUE)
             ELSE PopAfter(Effects(1, {i, n}, <<>>),
                           DownElseUp(Swap(s, i, n), i, n))
        ELSE PopLast(s, Effects(0, {}, <<>>))

FixFn(s, i) == DownElseUp(s, i, Len(s))

\* Mutant of MaxFn: a tie between indices 1 and 2 goes to index 2.
MaxFnTieRight(s) ==
    CASE Len(s) = 1 -> Result(s, 0, Effects(0, {}, <<>>), FALSE)
      [] Len(s) = 2 -> Result(s, 1, Effects(0, {}, <<>>), FALSE)
      [] OTHER ->
           IF ~Indexable(s, 1, 2)
           THEN Result(s, NoRet, Effects(0, {1, 2}, <<>>), TRUE)
           ELSE Result(s, IF ~Less(s, 2, 1) THEN 2 ELSE 1,
                       Effects(0, {1, 2}, <<>>), FALSE)

\* Mutant of MaxFn: an empty sequence is answered with index 0.
MaxFnEmptyZero(s) ==
    CASE Len(s) <= 1 -> Result(s, 0, Effects(0, {}, <<>>), FALSE)
      [] Len(s) = 2 -> Result(s, 1, Effects(0, {}, <<>>), FALSE)
      [] OTHER ->
           IF ~Indexable(s, 1, 2)
           THEN Result(s, NoRet, Effects(0, {1, 2}, <<>>), TRUE)
           ELSE Result(s, IF Less(s, 1, 2) THEN 2 ELSE 1,
                       Effects(0, {1, 2}, <<>>), FALSE)

\* Max with its effects and its panic on h.Less(1, 2) out of range.
MaxFn(s) ==
    CASE Len(s) = 1 -> Result(s, 0, Effects(0, {}, <<>>), FALSE)
      [] Len(s) = 2 -> Result(s, 1, Effects(0, {}, <<>>), FALSE)
      [] OTHER ->
           IF ~Indexable(s, 1, 2)
           THEN Result(s, NoRet, Effects(0, {1, 2}, <<>>), TRUE)
           ELSE Result(s, IF Less(s, 1, 2) THEN 2 ELSE 1,
                       Effects(0, {1, 2}, <<>>), FALSE)

\* Mutant of Max: indices 1 and 2 are not compared.
MaxAlwaysLeft(s) == IF Len(s) = 1 THEN 0 ELSE 1

\* The index Max returns.
Max(s) == MaxFn(s).v

(***************************************************************************)
(* Actions: one call of a package-level function (or of the caller's own   *)
(* slice operations) each.  last records the call and what it returned,    *)
(* eff what the call did besides; out collects the returned values and     *)
(* orig the sequence Init was given, when the specification tracks them.   *)
(* run is the sift in progress of the step-by-step specification.          *)
(***************************************************************************)
\* A call that returned, and a call that ended in a panic.
Call(op, arg, ret) == [op |-> op, arg |-> arg, ret |-> ret, panic |-> FALSE]

Crash(op, arg) == [op |-> op, arg |-> arg, ret |-> NoRet, panic |-> TRUE]

EffectsOf(r) == Effects(r.swaps, r.touched, r.path)

NoEffects == Effects(0, {}, <<>>)

Idle == [pc |-> "idle"]

\* The caller fills the slice before Init (h.Push(i) of the tests).
RawPush(maxLen, maxVal) ==
    /\ ~inited
    /\ Len(h) < maxLen
    /\ \E v \in 0..maxVal :
          /\ h' = SeqPush(h, v)
          /\ last' = Call("RawPush", v, NoRet)
    /\ eff' = NoEffects
    /\ UNCHANGED <<inited, out, orig, track, run>>

Init ==
    /\ \E r \in {InitFn(h)} :
           /\ h' = r.h
           /\ eff' = EffectsOf(r)
    /\ inited' = TRUE
    /\ last' = Call("Init", NoRet, NoRet)
    /\ out' = <<>>
    /\ orig' = IF track THEN h ELSE orig
    /\ UNCHANGED <<track, run>>

\* Push on a heap: one that Init built, or an empty sequence.
Push(maxLen, maxVal) ==
    /\ inited \/ Len(h) = 0
    /\ Len(h) < maxLen
    /\ \E x \in 0..maxVal :
          \E r \in {PushFn(h, x)} :
              /\ h' = r.h
              /\ eff' = EffectsOf(r)
              /\ last' = Call("Push", x, NoRet)
    /\ inited' = TRUE
    /\ UNCHANGED <<out, orig, track, run>>

Pop ==
    /\ inited
    /\ Len(h) >= 1
    /\ \E r \in {PopFn(h)} :
           /\ h' = r.h
           /\ eff' = EffectsOf(r)
           /\ last' = Call("Pop", NoRet, r.v)
           /\ out' = IF track THEN Append(out, r.v) ELSE out
    /\ UNCHANGED <<inited, orig, track, run>>

Remove(i) ==
    /\ inited
    /\ 0 <= i /\ i < Len(h)
    /\ \E r \in {RemoveFn(h, i)} :
           /\ h' = r.h
           /\ eff' = EffectsOf(r)
           /\ last' = Call("Remove", i, r.v)
           /\ out' = IF track THEN Append(out, r.v) ELSE out
    /\ UNCHANGED <<inited, orig, track, run>>

\* The caller stores v at index i in place, then calls Fix(h, i).
Fix(i, v) ==
    /\ inited
    /\ 0 <= i /\ i < Len(h)
    /\ \E r \in {FixFn([h EXCEPT ![i + 1] = v], i)} :
           /\ h' = r.h
           /\ eff' = EffectsOf(r)
    /\ last' = Call("Fix", i, NoRet)
    /\ UNCHANGED <<inited, out, orig, track, run>>

(***************************************************************************)
(* Calls made without regard to the documented preconditions: any length,  *)
(* any index.  A call that panics ends the program: last.panic is set and  *)
(* h is the sequence as the panic left it.                                 *)
(***************************************************************************)
Panicked == last.panic

Returned(r, op, arg, v) == IF r.panic THEN Crash(op, arg) ELSE Call(op, arg, v)

PopCall ==
    /\ \E r \in {PopFn(h)} :
           /\ h' = r.h
           /\ eff' = EffectsOf(r)
           /\ last' = Returned(r, "Pop", NoRet, r.v)
    /\ inited' = TRUE
    /\ UNCHANGED <<out, orig, track, run>>

MaxCall ==
    /\ \E r \in {MaxFn(h)} :
           /\ h' = r.h
           /\ eff' = EffectsOf(r)
           /\ last' = Returned(r, "Max", NoRet, r.v)
    /\ UNCHANGED <<inited, out, orig, track, run>>

RemoveCall(i) ==
    /\ \E r \in {RemoveFn(h, i)} :
           /\ h' = r.h
           /\ eff' = EffectsOf(r)
           /\ last' = Returned(r, "Remove", i, r.v)
    /\ inited' = TRUE
    /\ UNCHANGED <<out, orig, track, run>>

FixCall(i) ==
    /\ \E r \in {FixFn(h, i)} :
           /\ h' = r.h
           /\ eff' = EffectsOf(r)
           /\ last' = Returned(r, "Fix", i, NoRet)
    /\ inited' = TRUE
    /\ UNCHANGED <<out, orig, track, run>>

\* One call of down(h, i0, n) on the sequence as it is, heap or not.
DownCall(i0, n) ==
    /\ 0 <= i0 /\ i0 < Len(h)
    /\ 0 <= n /\ n <= Len(h)
    /\ \E r \in {down(h, i0, n)} :
           /\ h' = r.h
           /\ eff' = EffectsOf(r)
           /\ last' = Returned(r, "down", <<i0, n>>, r.moved)
    /\ UNCHANGED <<inited, out, orig, track, run>>

\* One call of isMinLevel(index).
LevelCall(index) ==
    /\ last' = Call("isMinLevel", index, isMinLevel(index))
    /\ eff' = NoEffects
    /\ UNCHANGED <<h, inited, out, orig, track, run>>

(***************************************************************************)
(* Specifications.                                                         *)
(***************************************************************************)
Start(t) ==
    /\ h = <<>>
    /\ inited = FALSE
    /\ last = Call("new", NoRet, NoRet)
    /\ eff = NoEffects
    /\ out = <<>>
    /\ orig = <<>>
    /\ track = t
    /\ run = Idle

\* Every operation, in any order.
StartAll == Start(FALSE)

Next ==
    \/ RawPush(MaxLen, MaxVal)
    \/ Init
    \/ Push(MaxLen, MaxVal)
    \/ Pop
    \/ \E i \in 0..(MaxLen - 1) : Remove(i)
    \/ \E i \in 0..(MaxLen - 1) : \E v \in 0..MaxVal : Fix(i, v)

Spec == StartAll /\ [][Next]_vars

\* Init, Push and Pop only.
NextPushPop ==
    \/ RawPush(PushLen, MaxVal)
    \/ Init
    \/ Push(PushLen, MaxVal)
    \/ Pop

SpecPushPop == StartAll /\ [][NextPushPop]_vars

\* Init, then Pop until empty; the returned values are collected in out.
StartTracked == Start(TRUE)

NextSort ==
    \/ RawPush(SortLen, MaxVal)
    \/ Init
    \/ Pop

SpecSort == StartTracked /\ [][NextSort]_vars

\* Init, then Remove(h, Max(h)) until empty (TestRemove0).
RemoveMax == Len(h) >= 1 /\ Remove(Max(h))

NextRemoveMax ==
    \/ RawPush(SortLen, MaxVal)
    \/ Init
    \/ RemoveMax

SpecRemoveMax == StartTracked /\ [][NextRemoveMax]_vars

\* Init, then Remove at any index, on sequences deep enough for an index
\* with both a grandparent and a child.
NextDeep ==
    \/ RawPush(DeepLen, DeepVal)
    \/ Init
    \/ \E i \in 0..(DeepLen - 1) : Remove(i)

SpecDeep == StartAll /\ [][NextDeep]_vars

\* Init on any sequence, then calls at any length and any index, in range or
\* out of it, until one of them panics.
NextMisuse ==
    /\ ~Panicked
    /\ \/ RawPush(MisuseLen, MaxVal)
       \/ Init
       \/ PopCall
       \/ MaxCall
       \/ \E i \in (-2)..(MisuseLen + 1) : RemoveCall(i)
       \/ \E i \in (-2)..(MisuseLen + 1) : FixCall(i)

SpecMisuse == StartAll /\ [][NextMisuse]_vars

\* A heap built by Push calls alone, then key changes each followed by Fix
\* (TestFix).
PushBuild == last.op \in {"new", "Push"} /\ Push(MaxLen, MaxVal)

NextFix ==
    \/ PushBuild
    \/ \E i \in 0..(MaxLen - 1) : \E v \in 0..MaxVal : Fix(i, v)

SpecFix == StartAll /\ [][NextFix]_vars

\* down on any sequence, from any start index, under any bound.
NextDown ==
    \/ RawPush(DownLen, DownVal)
    \/ \E i0 \in 0..(DownLen - 1) : \E n \in 0..DownLen : DownCall(i0, n)

SpecDown == StartAll /\ [][NextDown]_vars

\* isMinLevel on every small index and on the first and last index of every
\* deeper level.
LevelEnds == UNION {{2 ^ k - 1, 2 * (2 ^ k - 1)} : k \in 0..LevelBits}

NextLevel == \E index \in (0..LevelMax) \cup LevelEnds : LevelCall(index)

SpecLevel == StartAll /\ [][NextLevel]_vars

(***************************************************************************)
(* The min-max heap property, stated without the code's helpers.           *)
(***************************************************************************)
RECURSIVE Depth(_)
Depth(i) == IF i = 0 THEN 0 ELSE 1 + Depth((i - 1) \div 2)

RECURSIVE IsDescendant(_, _)
IsDescendant(d, i) ==
    /\ d > i
    /\ LET p == (d - 1) \div 2 IN p = i \/ IsDescendant(p, i)

MinMaxHeap(s) ==
    \A i \in 0..(Len(s) - 1) : \A d \in 0..(Len(s) - 1) :
        IsDescendant(d, i) =>
            IF Depth(i) % 2 = 0 THEN At(s, i) <= At(s, d)
                                ELSE At(s, i) >= At(s, d)

Elems(s) == {s[k] : k \in 1..Len(s)}

MinOf(s) == CHOOSE x \in Elems(s) : \A y \in Elems(s) : x <= y

MaxOf(s) == CHOOSE x \in Elems(s) : \A y \in Elems(s) : x >= y

Count(s, v) == Cardinality({k \in 1..Len(s) : s[k] = v})

SameBag(s, t) == \A v \in Elems(s) \cup Elems(t) : Count(s, v) = Count(t, v)

\* The indices of the subtree rooted at i that lie below n.
Subtree(i, n) == {k \in 0..(n - 1) : k = i \/ IsDescendant(k, i)}

\* The children and grandchildren of i that lie below n.
NearProgeny(i, n) ==
    {k \in Subtree(i, n) : k # i /\ Depth(k) <= Depth(i) + 2}

\* The element at i is the least (min level) or greatest (max level) among
\* itself and its children and grandchildren below n.
ExtremeAt(s, i, n) ==
    \A k \in NearProgeny(i, n) :
        IF Depth(i) % 2 = 0 THEN At(s, i) <= At(s, k)
                            ELSE At(s, i) >= At(s, k)

\* The order between every index and its direct children only.
ParentChildOrdered(s) ==
    \A i \in 0..(Len(s) - 1) : \A j \in {2 * i + 1, 2 * i + 2} :
        j < Len(s) =>
            IF Depth(i) % 2 = 0 THEN At(s, j) >= At(s, i)
                                ELSE At(s, j) <= At(s, i)

NonDecreasing(s) == \A k \in 1..(Len(s) - 1) : s[k] <= s[k + 1]

NonIncreasing(s) == \A k \in 1..(Len(s) - 1) : s[k] >= s[k + 1]

(***************************************************************************)
(* down and up one loop iteration at a time.  run holds the locals of the  *)
(* call in progress: on, onMinLevel, and the arguments i0 and n.           *)
(***************************************************************************)
\* Mutant of DownIter: after a grandchild swap on is not advanced.
DownIterStuck(s, on, onMinLevel, n, acc) ==
    LET sc == Scan(s, n, onMinLevel, Progeny(on), 1,
                   [index |-> on, relation |-> self], acc.touched)
        smallest == sc.smallest
        seen == Touch(acc, sc.touched)
    IN  IF sc.panic THEN [o |-> Outcome(s, on, seen, TRUE), again |-> FALSE]
        ELSE IF smallest.relation = self
        THEN [o |-> Outcome(s, on, seen, FALSE), again |-> FALSE]
        ELSE LET s1 == Swap(s, on, smallest.index)
                 acc1 == Hop(seen, smallest.index)
             IN  IF smallest.relation = child
                 THEN [o |-> Outcome(s1, smallest.index, acc1, FALSE),
                       again |-> FALSE]
                 ELSE [o |-> Outcome(s1, on, acc1, FALSE), again |-> TRUE]

\* One iteration of the outer loop of down: the state it leaves and whether
\* the loop goes round again.
DownIter(s, on, onMinLevel, n, acc) ==
    LET sc == Scan(s, n, onMinLevel, Progeny(on), 1,
                   [index |-> on, relation |-> self], acc.touched)
        smallest == sc.smallest
        seen == Touch(acc, sc.touched)
    IN  IF sc.panic THEN [o |-> Outcome(s, on, seen, TRUE), again |-> FALSE]
        ELSE IF smallest.relation = self
        THEN [o |-> Outcome(s, on, seen, FALSE), again |-> FALSE]
        ELSE LET s1 == Swap(s, on, smallest.index)
                 acc1 == Hop(seen, smallest.index)
                 p == parent(smallest.index)
                 acc2 == Touch(acc1, {p, smallest.index})
             IN  IF smallest.relation = child
                 THEN [o |-> Outcome(s1, smallest.index, acc1, FALSE),
                       again |-> FALSE]
                 ELSE IF ~Indexable(s1, p, smallest.index)
                 THEN [o |-> Outcome(s1, smallest.index, acc2, TRUE),
                       again |-> FALSE]
                 ELSE IF onMinLevel = Less(s1, p, smallest.index)
                 THEN [o |-> Outcome(Swap(s1, smallest.index, p),
                                     smallest.index,
                                     [acc2 EXCEPT !.swaps = @ + 1], FALSE),
                       again |-> TRUE]
                 ELSE [o |-> Outcome(s1, smallest.index, acc2, FALSE),
                       again |-> TRUE]

Running(pc, on, i0, n) ==
    [pc |-> pc, on |-> on, onMinLevel |-> isMinLevel(on), i0 |-> i0, n |-> n]

\* down(h, i0, n) is entered, with n the length or one less as the package
\* calls it.
StartDown(i0, n) ==
    /\ run.pc = "idle"
    /\ 0 <= i0 /\ i0 < Len(h)
    /\ n \in {Len(h), Len(h) - 1}
    /\ run' = Running("down", i0, i0, n)
    /\ eff' = Effects(0, {}, <<i0>>)
    /\ last' = Call("enter down", <<i0, n>>, NoRet)
    /\ UNCHANGED <<h, inited, out, orig, track>>

DownStep ==
    /\ run.pc = "down"
    /\ \E it \in {DownIter(h, run.on, run.onMinLevel, run.n, eff)} :
           /\ h' = it.o.h
           /\ eff' = EffectsOf(it.o)
           /\ run' = IF it.again THEN [run EXCEPT !.on = it.o.on] ELSE Idle
           /\ last' = IF it.again THEN last
                      ELSE Returned(it.o, "down", <<run.i0, run.n>>,
                                    it.o.on > run.i0)
    /\ UNCHANGED <<inited, out, orig, track>>

\* up(h, on) is entered.
StartUp(on) ==
    /\ run.pc = "idle"
    /\ 0 <= on /\ on < Len(h)
    /\ run' = Running("up", on, on, Len(h))
    /\ eff' = Effects(0, {}, <<on>>)
    /\ last' = Call("enter up", on, NoRet)
    /\ UNCHANGED <<h, inited, out, orig, track>>

\* The parent step of up.
UpParent ==
    /\ run.pc = "up"
    /\ LET p == parent(run.on)
           swap == hasParent(run.on) /\ run.onMinLevel = Less(h, p, run.on)
       IN  /\ h' = IF swap THEN Swap(h, run.on, p) ELSE h
           /\ eff' = IF ~hasParent(run.on) THEN eff
                     ELSE IF swap THEN Hop(Touch(eff, {p, run.on}), p)
                     ELSE Touch(eff, {p, run.on})
           /\ run' = IF swap
                     THEN [run EXCEPT !.pc = "uploop", !.on = p,
                                      !.onMinLevel = ~run.onMinLevel]
                     ELSE [run EXCEPT !.pc = "uploop"]
    /\ UNCHANGED <<inited, last, out, orig, track>>

\* One iteration of the grandparent loop of up.
UpStep ==
    /\ run.pc = "uploop"
    /\ LET g == grandparent(run.on)
           swap == hasGrandparent(run.on) /\ run.onMinLevel = Less(h, run.on, g)
       IN  /\ h' = IF swap THEN Swap(h, run.on, g) ELSE h
           /\ eff' = IF ~hasGrandparent(run.on) THEN eff
                     ELSE IF swap THEN Hop(Touch(eff, {run.on, g}), g)
                     ELSE Touch(eff, {run.on, g})
           /\ run' = IF swap THEN [run EXCEPT !.on = g] ELSE Idle
           /\ last' = IF swap THEN last ELSE Call("up", run.i0, NoRet)
    /\ UNCHANGED <<inited, out, orig, track>>

\* The caller fills the slice as the tests do, by a loop of h.Push: with
\* zeros (TestInit0), with falling values (TestInit1) or with rising values
\* (TestRemove1).
TestFill(len) ==
    { [k \in 1..len |-> 0],
      [k \in 1..len |-> SiftLen - (k - 1)],
      [k \in 1..len |-> k - 1] }

FillSlice ==
    /\ last.op = "new"
    /\ \E len \in 1..SiftLen :
          /\ h' \in TestFill(len)
          /\ last' = Call("RawPush", len, NoRet)
    /\ eff' = NoEffects
    /\ UNCHANGED <<inited, out, orig, track, run>>

\* One down or one up on the filled slice, step by step.
Filled == last.op = "RawPush"

NextSift ==
    \/ FillSlice
    \/ Filled /\ \E i0 \in 0..(SiftLen - 1) : \E n \in 0..SiftLen : StartDown(i0, n)
    \/ DownStep
    \/ Filled /\ \E on \in 0..(SiftLen - 1) : StartUp(on)
    \/ UpParent
    \/ UpStep

\* A call in progress keeps running.
SiftStep == DownStep \/ UpParent \/ UpStep

SpecSift == StartAll /\ [][NextSift]_vars /\ WF_vars(SiftStep)

(***************************************************************************)
(* Claims.                                                                 *)
(***************************************************************************)
\* C1: whatever sequence Init is given, after Init returns every min-level
\* index holds a value <= all of its descendants and every max-level index a
\* value >= all of its descendants.
InitEstablishesHeap == last.op = "Init" => MinMaxHeap(h)

\* Init was given a full-length sequence that was no heap and reordered it.
InitReorderedWitness ==
    /\ last.op = "Init"
    /\ Len(h) = SortLen
    /\ ~MinMaxHeap(orig)
    /\ h # orig

\* C2: on a heap that satisfies the min-max heap property, storing any value
\* at one valid index and calling Fix on that index leaves the property
\* holding for every index and all of its descendants.
FixRestoresHeap ==
    [][(last'.op = "Fix" /\ MinMaxHeap(h)) => MinMaxHeap(h')]_vars

\* C3: on a heap that satisfies the min-max heap property, Remove at any
\* valid index leaves the property holding over the remaining elements.
RemoveKeepsHeap ==
    [][(last'.op = "Remove" /\ MinMaxHeap(h)) => MinMaxHeap(h')]_vars

\* C4: every state reached from an empty or Init-built heap by Push and Pop
\* calls satisfies the min-max heap property.
PushPopKeepHeap == inited => MinMaxHeap(h)

\* A Pop that left a heap of at least four elements, after a Push.
PushPopWitness ==
    /\ inited
    /\ last.op = "Pop"
    /\ Len(h) = PushLen - 1
    /\ Cardinality(Elems(h)) > 1

\* C5: in every non-empty state reached by Init, Push, Pop, Remove and key
\* change followed by Fix, the value at the index Max returns is the maximum
\* of all values held.
MaxIsMaximum == (inited /\ Len(h) >= 1) => At(h, Max(h)) = MaxOf(h)

\* C6: in every non-empty state reached by Init, Push, Pop, Remove and key
\* change followed by Fix, the element at index 0 is a minimum of all values
\* held.
RootIsMinimum == (inited /\ Len(h) >= 1) => At(h, 0) = MinOf(h)

\* C7: Init and then Pop until empty returns the values in non-decreasing
\* order; when the heap is empty the returned values are the values Init was
\* given, each as often as it occurred, and every Pop shortens the heap by
\* one.
PopsSortAscending ==
    inited =>
        /\ NonDecreasing(out)
        /\ Len(out) + Len(h) = Len(orig)
        /\ (Len(h) = 0 => SameBag(out, orig))

\* A full-length unsorted input with every value in it was popped to empty.
PopsSortWitness ==
    /\ inited
    /\ Len(h) = 0
    /\ Len(out) = SortLen
    /\ ~NonDecreasing(orig)
    /\ Cardinality(Elems(out)) = MaxVal + 1

\* C8: in any interleaving of Push and Pop on a heap built by Init, every
\* Pop returns a minimum of the values held at the moment of the call.
PopReturnsMinimum == [][last'.op = "Pop" => last'.ret = MinOf(h)]_vars

\* A Pop returned a value strictly below everything left in a long heap.
PopMinimumWitness ==
    /\ last.op = "Pop"
    /\ Len(h) = PushLen - 1
    /\ last.ret < MinOf(h)

\* C9: Init and then Remove(h, Max(h)) until empty returns the values in
\* non-increasing order, each returned value being the maximum of the
\* values still held, and the sequence ends empty with every value returned.
RemoveMaxSortsDescending ==
    inited =>
        /\ NonIncreasing(out)
        /\ \A k \in 1..Len(out) : \A j \in 1..Len(h) : out[k] >= h[j]
        /\ Len(out) + Len(h) = Len(orig)
        /\ (Len(h) = 0 => SameBag(out, orig))

\* A full-length input that was not in descending order was removed to
\* empty, the maximum having been found at index 2 at least once.
RemoveMaxWitness ==
    /\ inited
    /\ Len(h) = 0
    /\ Len(out) = SortLen
    /\ ~NonIncreasing(orig)
    /\ out[1] > out[SortLen]

\* C10: Remove(h, i) returns the value stored at index i before the call and
\* the length drops by one; Remove(h, 0) returns what Pop would return.
RemoveReturnsElement ==
    [][last'.op = "Remove" =>
          /\ last'.ret = At(h, last'.arg)
          /\ Len(h') = Len(h) - 1
          /\ (last'.arg = 0 => last'.ret = PopFn(h).v)]_vars

\* A Remove in the middle of the sequence returned a value that was not the
\* last element's.
RemoveReturnsWitness ==
    /\ last.op = "Remove"
    /\ last.arg > 0
    /\ last.arg < Len(h)
    /\ Len(h) = MaxLen - 1
    /\ last.ret # At(h, last.arg)

\* C11: on a heap that satisfies the min-max heap property (equal values
\* included), Fix on a valid index whose value was not changed performs no
\* Swap and leaves the sequence as it was.  (The stored value is unchanged
\* exactly when the sequence holds the same values before and after.)
FixUnchangedNoSwap ==
    [][(last'.op = "Fix" /\ MinMaxHeap(h) /\ SameBag(h, h'))
           => (eff'.swaps = 0 /\ h' = h)]_vars

\* C12: on an empty sequence both Pop and Max end in a panic and return no
\* value.
EmptyPopMaxPanic ==
    [][(Len(h) = 0 /\ last'.op \in {"Pop", "Max"}) => last'.panic]_vars

\* Pop was called on an empty sequence and panicked without a Swap done.
EmptyPopPanicWitness ==
    /\ last.op = "Pop"
    /\ last.panic
    /\ Len(h) = 0
    /\ eff.swaps = 0

\* C13: for a sequence of any length n and every index i outside [0, n),
\* Remove(h, i) and Fix(h, i) end in a panic instead of returning.
OutOfRangePanics ==
    [][(last'.op \in {"Remove", "Fix"}
           /\ (last'.arg < 0 \/ last'.arg >= Len(h)))
          => last'.panic]_vars

\* C14: from a heap built by Push calls, after any number of steps that
\* store a value at one valid index and call Fix on it, every index is
\* ordered with each of its direct children: the child is >= the parent
\* under a min-level parent and <= the parent under a max-level parent.
FixKeepsParentChild == inited => ParentChildOrdered(h)

\* C15: no operation loses or duplicates a value.  Init and Fix only permute
\* the stored values (Fix after the caller's store at its index), Push adds
\* exactly the pushed value, Pop and Remove take away exactly the value they
\* return; so removing every element of an Init-built heap by Remove at any
\* valid indices returns each original element exactly once.
ValuesConserved ==
    [][/\ last'.op = "Init" => SameBag(h', h)
       /\ last'.op = "Push" => SameBag(h', Append(h, last'.arg))
       /\ last'.op \in {"Pop", "Remove"} =>
              /\ Len(h') = Len(h) - 1
              /\ SameBag(Append(h', last'.ret), h)
       /\ last'.op = "Fix" =>
              \E v \in 0..MaxVal :
                  SameBag(h', [h EXCEPT ![last'.arg + 1] = v])]_vars

\* A Remove inside a full-length sequence that sifted the element swapped
\* into the gap.
ValuesConservedWitness ==
    /\ last.op = "Remove"
    /\ last.arg = 1
    /\ Len(h) = MaxLen - 1
    /\ eff.swaps >= 2
    /\ Cardinality(Elems(h)) = MaxVal + 1

\* C16: on a non-empty sequence of length n, Max returns 0 when n = 1, 1 when
\* n = 2, and for n >= 3 returns 2 when the value at index 1 is less than the
\* value at index 2 and 1 otherwise (so 1 on a tie); the result is one of 0,
\* 1, 2, is below n, and the sequence is not modified.
MaxReturnsIndex ==
    [][(last'.op = "Max" /\ Len(h) >= 1) =>
          /\ ~last'.panic
          /\ last'.ret = (IF Len(h) = 1 THEN 0
                          ELSE IF Len(h) = 2 THEN 1
                          ELSE IF At(h, 1) < At(h, 2) THEN 2 ELSE 1)
          /\ last'.ret \in {0, 1, 2}
          /\ last'.ret < Len(h)
          /\ h' = h
          /\ eff'.swaps = 0]_vars

\* Max answered a tie between indices 1 and 2 of a sequence that is no heap.
MaxTieWitness ==
    /\ last.op = "Max"
    /\ ~last.panic
    /\ Len(h) = MisuseLen
    /\ At(h, 1) = At(h, 2)
    /\ At(h, 0) > At(h, 1)
    /\ last.ret = 1

\* C17: down(h, i0, n) returns true if and only if it performed at least one
\* Swap; equivalently, it returns false exactly when the element at i0 was
\* already the extreme among itself and its children and grandchildren
\* below n, and then nothing was moved.
DownReportsSwap ==
    [][last'.op = "down" =>
          /\ last'.ret = (eff'.swaps >= 1)
          /\ last'.ret = ~ExtremeAt(h, last'.arg[1], last'.arg[2])
          /\ (~last'.ret => h' = h)]_vars

\* C18: down(h, i0, n) hands no index >= n and no index outside the subtree
\* rooted at i0 to Less or Swap, and leaves the elements at all such indices
\* where they were; so an element parked at n - 1 or beyond stays there.
DownStaysInSubtree ==
    [][last'.op = "down" =>
          LET i0 == last'.arg[1]
              n == last'.arg[2]
          IN  /\ ~last'.panic
              /\ eff'.touched \subseteq Subtree(i0, n)
              /\ Len(h') = Len(h)
              /\ \A k \in (0..(Len(h) - 1)) \ Subtree(i0, n) :
                     At(h', k) = At(h, k)]_vars

\* down moved the root to a grandchild under a bound that shut out the last
\* element, a grandchild too and as small as the value brought to the root.
DownBoundWitness ==
    /\ last.op = "down"
    /\ last.arg = <<0, DownLen - 1>>
    /\ Len(h) = DownLen
    /\ eff.swaps >= 1
    /\ eff.path[Len(eff.path)] > 2
    /\ At(h, DownLen - 1) = At(h, 0)

\* C19: for every index >= 0, isMinLevel(index) is true exactly when
\* floor(log2(index + 1)), the depth of the index, is even: true for 0,
\* false for 1 and 2, true for 3..6, false for 7..14, and so on.
MinLevelIsEvenDepth ==
    last.op = "isMinLevel" =>
        /\ last.ret = (Depth(last.arg) % 2 = 0)
        /\ (last.arg \in {0} \cup (3..6) => last.ret)
        /\ (last.arg \in (1..2) \cup (7..14) => ~last.ret)

\* isMinLevel was asked about the last index of the deepest level looked at.
MinLevelWitness ==
    /\ last.op = "isMinLevel"
    /\ last.arg = 2 * (2 ^ LevelBits - 1)
    /\ last.ret = (LevelBits % 2 = 0)

\* C20: every call terminates on every finite sequence, sequences of equal
\* values included: a down or an up in progress always comes to its return,
\* every iteration of down's loop that does not end it moves the current
\* index strictly up, and every hop of up moves it strictly down.
SiftsTerminate ==
    /\ [][run.pc = "down" => (run'.pc = "idle" \/ run'.on > run.on)]_vars
    /\ [][(run.pc \in {"up", "uploop"} /\ eff'.swaps > eff.swaps)
             => run'.on < run.on]_vars
    /\ [][run.pc = "uploop" => (run'.pc = "idle" \/ run'.on < run.on)]_vars
    /\ (run.pc # "idle") ~> (run.pc = "idle")

\* down returned from a sequence of equal values after it had swapped the
\* element at a max-level index with an equal grandchild and gone round its
\* loop once more.
SiftsTerminateWitness ==
    /\ last.op = "down"
    /\ run.pc = "idle"
    /\ Cardinality(Elems(h)) = 1
    /\ Len(eff.path) >= 2
    /\ eff.path[2] > 2 * eff.path[1] + 2

====
